---- MODULE Spec2Model ----
(***************************************************************************)
(* Model of the Hellio HR email agent: the polling loop of agent/run.py,   *)
(* the workflow the agent is instructed to follow (SYSTEM_PROMPT of        *)
(* agent/hr_agent.py and the cycle prompt of agent/run.py) and the tools   *)
(* of agent/tools/hellio_api.py and agent/tools/gmail_api.py.              *)
(*                                                                         *)
(* Every tool call is one action.  The result of a call to an external     *)
(* service (Gmail, the Hellio backend) is an input drawn with \E.          *)
(* Similarity scores are kept in hundredths: 0.8 is 80, 0.6 is 60.         *)
(***************************************************************************)
EXTENDS Integers, Sequences, FiniteSets, TLC

\* ---------------------------------------------------------------- bounds
NumMsgs == 2
MaxCycles == 2
MaxMatches == 2
MaxFaults == 1
MaxIdleCycles == 101
\* config.py reads POLL_INTERVAL, the seconds between two polls, from the
\* environment (30 when unset): the agent is run with a short interval here.
POLL_INTERVAL == 2

\* ------------------------------------------------------ program constants
RESET_INTERVAL == 50
STRONG_THRESHOLD == 80
POTENTIAL_THRESHOLD == 60

\* gmail_api.py _service_cache = {"service": None}
NoService == -1

Msgs == 1..NumMsgs

GMAIL_CANDIDATES_ADDRESS == "candidates"
GMAIL_POSITIONS_ADDRESS == "positions"
OtherAddress == "elsewhere"

\* The kinds of inbound message the workflows distinguish: the recipient,
\* whether read_email reports an attachment, whether the body has a job
\* title and requirements, and whether the ingestion backend can extract a
\* candidate or a position from the document at all.
MessageKinds ==
    { [to |-> GMAIL_CANDIDATES_ADDRESS, attachment |-> TRUE,  details |-> FALSE, usable |-> TRUE],
      [to |-> GMAIL_CANDIDATES_ADDRESS, attachment |-> TRUE,  details |-> FALSE, usable |-> FALSE],
      [to |-> GMAIL_CANDIDATES_ADDRESS, attachment |-> FALSE, details |-> FALSE, usable |-> FALSE],
      [to |-> GMAIL_POSITIONS_ADDRESS,  attachment |-> FALSE, details |-> TRUE,  usable |-> TRUE],
      [to |-> GMAIL_POSITIONS_ADDRESS,  attachment |-> FALSE, details |-> TRUE,  usable |-> FALSE],
      [to |-> GMAIL_POSITIONS_ADDRESS,  attachment |-> FALSE, details |-> FALSE, usable |-> FALSE],
      [to |-> OtherAddress,             attachment |-> FALSE, details |-> FALSE, usable |-> FALSE] }

\* A message nobody has read yet: its content is an input of the first
\* read_email on it and does not change afterwards.
Unseen == [to |-> "", attachment |-> FALSE, details |-> FALSE, usable |-> FALSE]

\* Similarities on both sides of the two thresholds.
SimValues == {POTENTIAL_THRESHOLD - 1, POTENTIAL_THRESHOLD,
              STRONG_THRESHOLD - 1, STRONG_THRESHOLD}

\* Match lists suggest_positions_for_candidate can return: the similarities
\* of the suggested positions, in the order the backend gives them.
MatchLists == UNION { [1..n -> SimValues] : n \in 0..MaxMatches }

\* hellio_api.py suggest_candidates_for_position: the endpoint answers with
\* "up to 3 matching candidates"
TOP_N == 3

\* Lists suggest_candidates_for_position can return: the workflow uses the
\* names and the number of the candidates only, so a list is its candidates.
\* The tool hands on what the endpoint answers; the endpoint keeps to TOP_N.
CandidateLists ==
    { [i \in 1..n |-> i] :
        n \in 0..(IF MaxMatches < TOP_N THEN MaxMatches ELSE TOP_N) }

VARIABLES
    mail,           \* the content of each message, Unseen until it is read
    labels,         \* Gmail labels of each message
    ledger,         \* processed-email records of the backend
    drafts,         \* Gmail drafts
    notifications,  \* notifications of the backend
    gmailCalls,     \* Gmail API methods invoked so far
    running,        \* run.py: the shutdown flag
    cycle,          \* run.py: the cycle counter
    agents,         \* number of create_agent() calls
    result,         \* run.py: what the agent answered in this cycle
    has_work,       \* run.py: has_work of this cycle (FALSE until it is set)
    errorReport,    \* what became of this cycle's error notification
    slept,          \* seconds slept so far in the sleep that ends this cycle
    pc,             \* position of the scheduler / the agent's workflow
    listing,        \* result of search_emails in this cycle
    idx,            \* next entry of listing to check
    cur,            \* the message dispatched in this cycle, 0 if none
    entity,         \* id returned by the ingestion call of this run, 0 if none
    matches,        \* result of the suggest call, until the draft is written
    calls,          \* tool calls of this cycle, in order
    failedStep,     \* the step whose failure the workflow saw, "" if none
    faults,         \* steps of this run whose external call failed
    injected,       \* number of failures of external calls so far
    entities,       \* candidates and positions the ingestion backend created
    ingestCalls,    \* per message: ingestion calls made so far
    runs,           \* per message: outcomes of the cycles that handled it
    service,        \* gmail_api.py _service_cache: the cached handle
    attempts        \* requests of the mailbox operation the agent called last

vars == << mail, labels, ledger, drafts, notifications, gmailCalls, running,
           cycle, agents, result, has_work, errorReport, slept, pc, listing, idx, cur, entity,
           matches, calls, failedStep, faults, injected, entities, ingestCalls,
           runs, service, attempts >>

\* ---------------------------------------------------------------- helpers

RECURSIVE SelectSeq2(_, _)
SelectSeq2(s, T) ==
    IF s = << >> THEN << >>
    ELSE IF Head(s) \in T THEN << Head(s) >> \o SelectSeq2(Tail(s), T)
    ELSE SelectSeq2(Tail(s), T)

Range(s) == { s[i] : i \in 1..Len(s) }

Unread(m) == "UNREAD" \in labels[m]

RecordsOf(m) == { i \in 1..Len(ledger) : ledger[i].emailId = m }
HasRecord(m) == RecordsOf(m) # {}
DraftsOf(m) == { i \in 1..Len(drafts) : drafts[i].msg = m }
NotificationsOf(m) ==
    { i \in 1..Len(notifications) :
        notifications[i].msg = m /\ notifications[i].type # "error" }
ErrorNotificationsOf(m) ==
    { i \in 1..Len(notifications) :
        notifications[i].msg = m /\ notifications[i].type = "error" }

\* Mutant of ClassifyTo: the two addresses are taken for each other.
ClassifyTo_Swapped(to) ==
    IF to = GMAIL_CANDIDATES_ADDRESS THEN "position"
    ELSE IF to = GMAIL_POSITIONS_ADDRESS THEN "candidate"
    ELSE "other"

\* hr_agent.py, Email Classification
ClassifyTo(to) ==
    IF to = GMAIL_CANDIDATES_ADDRESS THEN "candidate"
    ELSE IF to = GMAIL_POSITIONS_ADDRESS THEN "position"
    ELSE "other"

Classify(m) == ClassifyTo(mail[m].to)

\* Mutant of SelectTemplate: the thresholds are exclusive bounds.
SelectTemplate_Exclusive(ms) ==
    IF ms = << >> THEN "B5"
    ELSE IF \E i \in 1..Len(ms) : ms[i] > STRONG_THRESHOLD THEN "B4"
    ELSE IF \E i \in 1..Len(ms) : ms[i] > POTENTIAL_THRESHOLD THEN "B5"
    ELSE IF Len(ms) > 1 THEN "B6"
    ELSE "B7"

\* hr_agent.py, template selection rules of the CV workflow
SelectTemplate(ms) ==
    IF ms = << >> THEN "B5"
    ELSE IF \E i \in 1..Len(ms) : ms[i] >= STRONG_THRESHOLD THEN "B4"
    ELSE IF \E i \in 1..Len(ms) : ms[i] >= POTENTIAL_THRESHOLD THEN "B5"
    ELSE IF Len(ms) > 1 THEN "B6"
    ELSE "B7"

\* Mutant of Found: the lookup never reports a record.
Found_Never(status) == FALSE

\* hellio_api.py check_email_processed: every status but 404 is "found"
Found(status) == status # 404

\* Mutant of Picks: the first listed email is picked, processed or not.
Picks_Any(found) == TRUE

\* run.py cycle prompt, step 2: pick the first email that has NOT been
\* processed yet
Picks(found) == ~found

\* -------------------------------------------------------------------- Init
InitWith(unread) ==
    /\ mail = [m \in Msgs |-> Unseen]
    /\ labels = [m \in Msgs |-> IF m \in unread THEN {"INBOX", "UNREAD"}
                                                ELSE {"INBOX"}]
    /\ ledger = << >>
    /\ drafts = << >>
    /\ notifications = << >>
    /\ gmailCalls = {}
    /\ running = TRUE
    /\ cycle = 0
    /\ agents = 1
    /\ result = ""
    /\ has_work = FALSE
    /\ errorReport = "none"
    /\ slept = 0
    /\ pc = "loop"
    /\ listing = << >>
    /\ idx = 1
    /\ cur = 0
    /\ entity = 0
    /\ matches = << >>
    /\ calls = << >>
    /\ failedStep = ""
    /\ faults = {}
    /\ injected = 0
    /\ entities = << >>
    /\ ingestCalls = [m \in Msgs |-> 0]
    /\ runs = [m \in Msgs |-> << >>]
    /\ service = NoService
    /\ attempts = << >>

\* The agent starts on a mailbox whose messages are all unread
Init == InitWith(Msgs)

\* The agent starts on a mailbox that holds no unread message
IdleInit == InitWith({})

\* The agent starts on a mailbox with one unread message
OneInit == InitWith({1})

\* ------------------------------------------------------- the workflow order

\* hr_agent.py: a candidate email with an attachment and a job posting with
\* a title and requirements are ingested; the others are not.
IngestsKind(k) ==
    \/ ClassifyTo(k.to) = "candidate" /\ k.attachment
    \/ ClassifyTo(k.to) = "position" /\ k.details

NeedsIngestion(m) == IngestsKind(mail[m])

\* The step that follows read_email, by what the email turned out to be
AfterRead(k) ==
    IF ClassifyTo(k.to) = "other" THEN {"commit"}
    ELSE IF IngestsKind(k) THEN {"ingest"}
    ELSE {"draft"}

\* Mutant of NextSteps: the record is written right after the draft, the
\* notification is left out.
NextSteps_SkipNotify(step, m) ==
    CASE step = "ingest" -> {"match"}
      [] step = "match" -> {"draft"}
      [] step = "draft" -> {"commit"}
      [] step = "notify" -> {"commit"}
      [] step = "commit" -> {"mark_read"}
      [] OTHER -> {"return"}

\* Mutant of NextSteps: with the draft written the agent turns to the
\* ledger check of the next listed email before it has finished this one.
NextSteps_NextEmailEarly(step, m) ==
    CASE step = "ingest" -> {"match"}
      [] step = "match" -> {"draft"}
      [] step = "draft" -> {"check"}
      [] step = "notify" -> {"commit"}
      [] step = "commit" -> {"mark_read"}
      [] OTHER -> {"return"}

\* Mutant of NextSteps: the record is written before the notification.
NextSteps_CommitFirst(step, m) ==
    CASE step = "ingest" -> {"match"}
      [] step = "match" -> {"draft"}
      [] step = "draft" -> {"commit"}
      [] step = "commit" -> {"notify"}
      [] step = "notify" -> {"mark_read"}
      [] OTHER -> {"return"}

\* The steps that may follow a step that succeeded.  After the notification
\* of a message that was not ingested (no CV attached, no job details) the
\* prompt names mark_email_processed in one place (Workflow 2, step 1; the
\* cycle prompt) and leaves it out in another (CV workflow, step 4; rule 3):
\* both continuations are possible.
NextSteps(step, m) ==
    CASE step = "ingest" -> {"match"}
      [] step = "match" -> {"draft"}
      [] step = "draft" -> {"notify"}
      [] step = "notify" ->
            IF NeedsIngestion(m) THEN {"commit"} ELSE {"commit", "mark_read"}
      [] step = "commit" -> {"mark_read"}
      [] OTHER -> {"return"}

\* Mutant of Sleeps: the sleep is entered whatever the shutdown flag says.
Sleeps_IgnoresShutdown(run, work) == ~work

\* Mutant of OnFailure: a failed step is ignored and the run goes on.
OnFailure_Ignored(step, m) == NextSteps(step, m)

\* hr_agent.py "If ANY step fails": the error notification, then stop.
OnFailure(step, m) == {"abort"}

\* Mutant of HasWork: every answer of the agent counts as work done.
HasWork_Always(res) == TRUE

\* run.py: has_work = "no new emails" not in result_text
HasWork(res) == res # "no new emails to process"

\* hr_agent.py: the template of the reply draft on each path
DraftTemplate(m, ms) ==
    IF Classify(m) = "candidate"
    THEN IF mail[m].attachment THEN SelectTemplate(ms) ELSE "B1"
    ELSE IF mail[m].details THEN "A3" ELSE "A1"

\* Mutant of NotificationType: every notification is a missing_info one.
NotificationType_MissingInfo(m) == "missing_info"

\* hr_agent.py: the type of the notification on each path
NotificationType(m) ==
    IF ~NeedsIngestion(m) THEN "missing_info"
    ELSE IF Classify(m) = "candidate" THEN "new_candidate"
    ELSE "new_position"

\* Mutant of ProcessedRecord: email_type and action_taken are not passed,
\* so the defaults of mark_email_processed are stored.
ProcessedRecord_Defaults(m, id) ==
    [ emailId |-> m, emailType |-> "other", actionTaken |-> "processed",
      entityId |-> IF NeedsIngestion(m) THEN id ELSE 0 ]

\* hr_agent.py: the arguments of mark_email_processed on each path
ProcessedRecord(m, id) ==
    [ emailId |-> m,
      emailType |-> Classify(m),
      actionTaken |-> IF Classify(m) = "other" THEN "skipped"
                      ELSE IF NeedsIngestion(m) THEN "ingested"
                      ELSE "draft_created",
      entityId |-> IF NeedsIngestion(m) THEN id ELSE 0 ]

\* Handles are numbered per mailbox operation: 0 is the handle the operation
\* finds in the cache, k is the k-th handle built while it runs.  The handle
\* an operation leaves in the cache is number 0 of the next one.
CachedHandle(cache) == IF cache = NoService THEN NoService ELSE 0

\* One request of a mailbox operation: the handle it was sent on, the handle
\* the cache held then, and what became of it
Request(h, c, res) == [handle |-> h, cached |-> c, result |-> res]

\* gmail_api.py get_gmail_service: the cached handle unless there is none or
\* a refresh is forced; a handle that is built is a new one and is cached
GetService(cache, force_refresh) ==
    IF cache # NoService /\ ~force_refresh THEN cache
    ELSE IF cache = NoService THEN 1 ELSE cache + 1

\* Mutant of RetryOn: every error of the first attempt is retried.
RetryOn_AnyError(attempt, e) == attempt = 0

\* gmail_api.py create_draft: if attempt == 0 and "SSL" in str(e): continue
RetryOn(attempt, e) == attempt = 0 /\ e = "SSL"

\* Mutant of ForceRefresh: the retry uses the cached handle again.
ForceRefresh_Never(attempt) == FALSE

\* gmail_api.py create_draft: force_refresh=(attempt > 0)
ForceRefresh(attempt) == attempt > 0

\* gmail_api.py create_draft: two attempts at most, the second one only
\* after an error whose text holds "SSL"
CreateDraftSucceeds(first, second) ==
    first = "ok" \/ (RetryOn(0, first) /\ second = "ok")

\* A mailbox operation that sends its request once, on the cached handle
OneRequest(ok) ==
    LET h == GetService(service, FALSE)
    IN /\ attempts' = << Request(h, h, IF ok THEN "ok" ELSE "error") >>
       /\ service' = CachedHandle(h)

\* gmail_api.py mark_email_as_read: removeLabelIds UNREAD
RemoveUnread(ls) == ls \ {"UNREAD"}

\* Mutant of LeaveUnread: the failed email is marked read all the same.
LeaveUnread_MarksRead(ls) == ls \ {"UNREAD"}

\* hr_agent.py step 5 of both workflows: after a failure the email is not
\* marked read, it is left unread for the retry
LeaveUnread(ls) == ls

\* Mutant of ReplyTo: reply_to_message_id is left at its default, None.
ReplyTo_Omitted(m) == 0

\* hr_agent.py rule 9: create_draft is called with reply_to_message_id =
\* the id of the email the run is on
ReplyTo(m) == m

\* gmail_api.py create_draft: threadId is set only when reply_to_message_id
\* is given (0 stands for None: the draft then starts a thread of its own)
ThreadKey(reply_to_message_id) ==
    IF reply_to_message_id # 0 THEN reply_to_message_id ELSE 0

\* Mutant of DraftMethod: the message is sent instead of stored.
DraftMethod_Send == "messages.send"

\* gmail_api.py create_draft: the Gmail method that stores the message
DraftMethod == "drafts.create"

\* hr_agent.py create_agent: the tools the agent can call
ToolList ==
    { "search_emails", "read_email", "download_attachment", "create_draft",
      "mark_email_as_read", "download_and_ingest_cv", "ingest_cv",
      "ingest_job", "save_email_as_text", "create_notification",
      "mark_email_processed", "check_email_processed", "get_positions",
      "get_candidates", "suggest_candidates_for_position",
      "suggest_positions_for_candidate", "get_candidate_details",
      "get_position_details" }

\* The results an external call can have: it can fail while the bound on
\* injected failures allows one more.
Results == IF injected < MaxFaults THEN BOOLEAN ELSE {TRUE}
Inject(ok) == injected' = IF ok THEN injected ELSE injected + 1

\* How a run that did not complete is remembered: "committed" when its
\* record was written before it stopped.
Outcome(how) ==
    IF \E i \in 1..Len(calls) :
          calls[i].tool = "mark_email_processed" /\ calls[i].arg = "ok"
    THEN "committed" ELSE how

Log(tool, m, arg) == calls' = Append(calls, [tool |-> tool, msg |-> m, arg |-> arg])

Failed(step) ==
    /\ failedStep' = step
    /\ faults' = faults \cup {step}
    /\ pc' \in OnFailure(step, cur)

Succeeded(step) ==
    /\ pc' \in NextSteps(step, cur)
    /\ UNCHANGED << failedStep, faults >>

\* ----------------------------------------------------------- the scheduler

\* run.py signal_handler
signal_handler ==
    /\ running
    /\ pc \notin {"stopped", "crashed"}
    /\ running' = FALSE
    /\ UNCHANGED << mail, labels, ledger, drafts, notifications, gmailCalls,
                    cycle, agents, result, has_work, errorReport, slept, pc,
                    listing, idx, cur, entity, matches, calls, failedStep,
                    faults, injected, entities, ingestCalls, runs >>
    /\ UNCHANGED << service, attempts >>

\* Mutant of ResetDue: the reset comes one cycle late.
ResetDue_OneLate(c) == c % RESET_INTERVAL = 1

\* run.py main: if cycle % RESET_INTERVAL == 0
ResetDue(c) == c % RESET_INTERVAL = 0

\* run.py main: while running.  The flag is read here and not again before
\* the sleep: a signal that arrives after the test finds the cycle begun.
LoopTest(limit) ==
    /\ pc = "loop"
    /\ running
    /\ cycle < limit
    /\ pc' = "begin"
    /\ UNCHANGED << mail, labels, ledger, drafts, notifications, gmailCalls,
                    running, cycle, agents, result, has_work, errorReport,
                    slept, listing, idx, cur, entity, matches, calls,
                    failedStep, faults, injected, entities, ingestCalls, runs >>
    /\ UNCHANGED << service, attempts >>

WhileRunning == LoopTest(MaxCycles)

\* The same test on the idle mailbox, far enough to meet the reset
WhileRunningIdle == LoopTest(MaxIdleCycles)

\* run.py main: cycle += 1, the periodic agent reset.  The reset calls
\* create_agent() before the try block of the loop is entered: when it
\* raises, nothing catches the exception and main ends with it.
StartCycle ==
    /\ pc = "begin"
    /\ cycle' = cycle + 1
    /\ \E created \in (IF ResetDue(cycle') THEN Results ELSE {TRUE}) :
          /\ Inject(created)
          /\ agents' = IF ResetDue(cycle') /\ created THEN agents + 1 ELSE agents
          /\ pc' = IF created THEN "search" ELSE "crashed"
    /\ result' = ""
    /\ has_work' = FALSE
    /\ slept' = 0
    /\ errorReport' = "none"
    /\ listing' = << >>
    /\ idx' = 1
    /\ cur' = 0
    /\ entity' = 0
    /\ matches' = << >>
    /\ calls' = << >>
    /\ failedStep' = ""
    /\ faults' = {}
    /\ UNCHANGED << mail, labels, ledger, drafts, notifications, gmailCalls,
                    running, entities, ingestCalls, runs >>
    /\ attempts' = << >>
    /\ UNCHANGED service

\* run.py main: the loop ends when running is false
Exit ==
    /\ pc = "loop"
    /\ ~running
    /\ pc' = "stopped"
    /\ UNCHANGED << mail, labels, ledger, drafts, notifications, gmailCalls,
                    running, cycle, agents, result, has_work, errorReport,
                    slept, listing, idx, cur, entity, matches, calls,
                    failedStep, faults, injected, entities, ingestCalls, runs >>
    /\ UNCHANGED << service, attempts >>

\* run.py main: if running and not has_work
Sleeps(run, work) == run /\ ~work

\* run.py main, after the try: the sleep is entered unless an email was
\* handled or the shutdown was requested.  What the agent's call held (its
\* tool calls and their results) is gone by now.
EndCycle ==
    /\ pc = "end"
    /\ slept' = 0
    /\ pc' = IF Sleeps(running, has_work) THEN "sleep" ELSE "loop"
    /\ listing' = << >>
    /\ idx' = 1
    /\ cur' = 0
    /\ entity' = 0
    /\ matches' = << >>
    /\ calls' = << >>
    /\ failedStep' = ""
    /\ faults' = {}
    /\ UNCHANGED << mail, labels, ledger, drafts, notifications, gmailCalls,
                    running, cycle, agents, result, has_work, errorReport,
                    injected, entities, ingestCalls, runs >>
    /\ attempts' = << >>
    /\ UNCHANGED service

\* run.py main: for _ in range(POLL_INTERVAL): if not running: break;
\* time.sleep(1).  One second of the sleep, or its end.
Sleep ==
    /\ pc = "sleep"
    /\ IF running /\ slept < POLL_INTERVAL
       THEN /\ slept' = slept + 1
            /\ UNCHANGED pc
       ELSE /\ pc' = "loop"
            /\ UNCHANGED slept
    /\ UNCHANGED << mail, labels, ledger, drafts, notifications, gmailCalls,
                    running, cycle, agents, result, has_work, errorReport,
                    listing, idx, cur, entity, matches, calls, failedStep,
                    faults, injected, entities, ingestCalls, runs >>
    /\ UNCHANGED << service, attempts >>

\* The agent's call ends with an exception (run.py, except branch): the
\* error is posted as a notification; a failure of that is only printed.
agent_raises ==
    /\ pc \in {"search", "check", "read", "ingest", "match", "draft",
               "notify", "commit", "mark_read", "abort", "return"}
    /\ injected < MaxFaults
    /\ has_work' = FALSE
    /\ result' = "exception"
    /\ \E posted \in BOOLEAN :
          /\ posted \/ injected + 1 < MaxFaults
          /\ injected' = IF posted THEN injected + 1 ELSE injected + 2
          /\ notifications' =
                IF posted
                THEN Append(notifications, [type |-> "error", msg |-> 0, entityId |-> 0])
                ELSE notifications
          /\ errorReport' =
                IF errorReport = "created" \/ posted THEN "created" ELSE "failed"
    /\ runs' = IF cur = 0 THEN runs
               ELSE [runs EXCEPT ![cur] = Append(@, Outcome("raised"))]
    /\ matches' = << >>
    /\ pc' = "end"
    /\ UNCHANGED << mail, labels, ledger, drafts, gmailCalls, running, cycle,
                    agents, slept, listing, idx, cur, entity, calls,
                    failedStep, faults, entities, ingestCalls >>
    /\ attempts' = << >>
    /\ UNCHANGED service

\* ------------------------------------------------ the cycle of the agent

\* gmail_api.py search_emails, cycle prompt step 1: the unread messages
search_emails ==
    /\ pc = "search"
    /\ listing' = SelectSeq2([i \in 1..NumMsgs |-> i], { m \in Msgs : Unread(m) })
    /\ idx' = 1
    /\ gmailCalls' = gmailCalls \cup {"messages.list", "messages.get"}
    /\ Log("search_emails", 0, "")
    /\ pc' = "check"
    /\ UNCHANGED << mail, labels, ledger, drafts, notifications, running,
                    cycle, agents, result, has_work, errorReport, slept, cur,
                    entity, matches, failedStep, faults, injected, entities,
                    ingestCalls, runs >>
    /\ OneRequest(TRUE)

\* cycle prompt step 4: every listed email is processed, or none was found
NoNewEmails ==
    /\ pc = "check"
    /\ idx > Len(listing)
    /\ result' = "no new emails to process"
    /\ has_work' = HasWork(result')
    /\ pc' = "end"
    /\ UNCHANGED << mail, labels, ledger, drafts, notifications, gmailCalls,
                    running, cycle, agents, errorReport, slept, listing, idx,
                    cur, entity, matches, calls, failedStep, faults, injected, entities,
                    ingestCalls, runs >>
    /\ attempts' = << >>
    /\ UNCHANGED service

\* What the backend answers when a request fails: the token is refused, or
\* the server has an error
ErrorStatuses == {401, 500}

\* hellio_api.py check_email_processed, cycle prompt step 2: the first
\* email that is not found is the one this cycle processes
check_email_processed ==
    /\ pc = "check"
    /\ idx <= Len(listing)
    /\ LET m == listing[idx] IN
       \E status \in {IF HasRecord(m) THEN 200 ELSE 404}
                         \cup (IF injected < MaxFaults THEN ErrorStatuses ELSE {}) :
          /\ Inject(status \notin ErrorStatuses)
          /\ Log("check_email_processed", m, ToString(status))
          /\ IF Picks(Found(status))
             THEN /\ cur' = m
                  /\ pc' = "read"
                  /\ UNCHANGED << idx, runs >>
             ELSE /\ idx' = idx + 1
                  /\ runs' = [runs EXCEPT ![m] = Append(@, "skipped")]
                  /\ UNCHANGED << cur, pc >>
    /\ UNCHANGED << mail, labels, ledger, drafts, notifications, gmailCalls,
                    running, cycle, agents, result, has_work, errorReport,
                    slept, listing, entity, matches, failedStep, faults,
                    entities, ingestCalls >>
    /\ attempts' = << >>
    /\ UNCHANGED service

\* ------------------------------------------------- the workflow of a message

\* gmail_api.py read_email (step 1 of both workflows)
read_email ==
    /\ pc = "read"
    /\ gmailCalls' = gmailCalls \cup {"messages.get"}
    /\ Log("read_email", cur, "")
    /\ \E ok \in Results :
          /\ Inject(ok)
          /\ OneRequest(ok)
          /\ IF ok
             THEN \E k \in (IF mail[cur] = Unseen THEN MessageKinds ELSE {mail[cur]}) :
                     /\ mail' = [mail EXCEPT ![cur] = k]
                     /\ pc' \in AfterRead(k)
                     /\ UNCHANGED << failedStep, faults >>
             ELSE /\ Failed("read")
                  /\ UNCHANGED mail
    /\ UNCHANGED << labels, ledger, drafts, notifications, running,
                    cycle, agents, result, has_work, errorReport, slept,
                    listing, idx, cur, entity, matches, entities,
                    ingestCalls, runs >>

\* Mutant of ReturnsId: whatever body the call returns counts as success.
ReturnsId_AnyBody(outcome) == outcome # "raises"

\* hellio_api.py ingest_cv / ingest_job return response.json(): the body
\* of a successful upload holds the id of the created entity
ReturnsId(outcome) == outcome = "created"

\* What an upload can answer: an entity is created from a usable document
\* unless the call fails; an unusable document is answered with an error body.
IngestOutcomes(m) ==
    IF mail[m].usable
    THEN {"created"} \cup (IF injected < MaxFaults THEN {"error_body", "raises"} ELSE {})
    ELSE {"error_body"}

\* The ingestion call of a run: what it does to the backend and to the run
Ingest(tool) ==
    /\ Log(tool, cur, "")
    /\ ingestCalls' = [ingestCalls EXCEPT ![cur] = @ + 1]
    /\ \E outcome \in IngestOutcomes(cur) :
          /\ Inject(outcome = "created" \/ ~mail[cur].usable)
          /\ entities' = IF outcome = "created"
                          THEN Append(entities, [type |-> Classify(cur), msg |-> cur])
                          ELSE entities
          /\ entity' = IF outcome = "created" THEN Len(entities) + 1 ELSE 0
          /\ IF ReturnsId(outcome)
             THEN Succeeded("ingest")
             ELSE Failed("ingest")
    /\ UNCHANGED << mail, labels, ledger, drafts, notifications, gmailCalls,
                    running, cycle, agents, result, has_work, errorReport,
                    slept, listing, idx, cur, matches, runs >>
    /\ attempts' = << >>
    /\ UNCHANGED service

\* CV workflow step 2: download the attachment and ingest it in one call
download_and_ingest_cv ==
    /\ pc = "ingest"
    /\ Classify(cur) = "candidate"
    /\ Ingest("download_and_ingest_cv")

\* job workflow steps 2-3: save_email_as_text, then hellio_api.py ingest_job
ingest_job ==
    /\ pc = "ingest"
    /\ Classify(cur) = "position"
    /\ Ingest("ingest_job")

\* CV workflow step 3: the positions that match the new candidate
suggest_positions_for_candidate ==
    /\ pc = "match"
    /\ Classify(cur) = "candidate"
    /\ Log("suggest_positions_for_candidate", cur, "")
    /\ \/ \E ms \in MatchLists :
             /\ matches' = ms
             /\ Inject(TRUE)
             /\ Succeeded("match")
       \/ /\ injected < MaxFaults
          /\ Inject(FALSE)
          /\ Failed("match")
          /\ UNCHANGED matches
    /\ UNCHANGED << mail, labels, ledger, drafts, notifications, gmailCalls,
                    running, cycle, agents, result, has_work, errorReport,
                    slept, listing, idx, cur, entity, entities, ingestCalls,
                    runs >>
    /\ attempts' = << >>
    /\ UNCHANGED service

\* Mutant of SuggestResult: the body is handed on whatever the status.
SuggestResult_AnyStatus(status, body) == body

\* hellio_api.py suggest_candidates_for_position: [] unless the status is 200
SuggestResult(status, body) == IF status # 200 THEN << >> ELSE body

\* The body of an answer that is not 200: an error object, no candidates
ErrorBody == << "error" >>

\* job workflow step 4: the candidates that match the new position.  The
\* request may also raise (no connection), which the workflow sees.
suggest_candidates_for_position ==
    /\ pc = "match"
    /\ Classify(cur) = "position"
    /\ \/ \E ms \in CandidateLists :
             /\ Log("suggest_candidates_for_position", cur, ToString(200))
             /\ matches' = SuggestResult(200, ms)
             /\ Inject(TRUE)
             /\ Succeeded("match")
       \/ \E status \in ErrorStatuses :
             /\ injected < MaxFaults
             /\ Inject(FALSE)
             /\ Log("suggest_candidates_for_position", cur, ToString(status))
             /\ matches' = SuggestResult(status, ErrorBody)
             /\ faults' = faults \cup {"match"}
             /\ pc' \in NextSteps("match", cur)
             /\ UNCHANGED failedStep
       \/ /\ injected < MaxFaults
          /\ Inject(FALSE)
          /\ Log("suggest_candidates_for_position", cur, "raised")
          /\ Failed("match")
          /\ UNCHANGED matches
    /\ UNCHANGED << mail, labels, ledger, drafts, notifications, gmailCalls,
                    running, cycle, agents, result, has_work, errorReport,
                    slept, listing, idx, cur, entity, entities, ingestCalls,
                    runs >>
    /\ attempts' = << >>
    /\ UNCHANGED service

\* gmail_api.py create_draft, with reply_to_message_id = the email's id
\* (rule 9); the draft is stored, never sent
create_draft ==
    /\ pc = "draft"
    /\ gmailCalls' = gmailCalls \cup {DraftMethod}
    /\ Log("create_draft", cur, DraftTemplate(cur, matches))
    /\ \E first \in {"ok", "SSL", "error"}, second \in {"ok", "error", "no_service"} :
          /\ first = "ok" \/ injected < MaxFaults
          /\ first = "ok" => second = "ok"
          /\ Inject(first = "ok")
          /\ LET h1 == GetService(service, ForceRefresh(0))
                 retry == first # "ok" /\ RetryOn(0, first)
                 h2 == GetService(h1, ForceRefresh(1))
             IN /\ attempts' =
                      IF ~retry THEN << Request(h1, h1, first) >>
                      ELSE IF second = "no_service"
                      THEN << Request(h1, h1, first),
                              Request(NoService, h1, second) >>
                      ELSE << Request(h1, h1, first), Request(h2, h2, second) >>
                /\ service' = CachedHandle(h1)
          /\ IF CreateDraftSucceeds(first, second)
             THEN /\ drafts' = Append(drafts,
                         [msg |-> cur, threadId |-> ThreadKey(ReplyTo(cur))])
                  /\ Succeeded("draft")
             ELSE /\ Failed("draft")
                  /\ UNCHANGED drafts
    /\ matches' = << >>
    /\ UNCHANGED << mail, labels, ledger, notifications, running, cycle,
                    agents, result, has_work, errorReport, slept, listing,
                    idx, cur, entity, entities, ingestCalls, runs >>

\* hellio_api.py create_notification for human review (rule 2)
create_notification ==
    /\ pc = "notify"
    /\ Log("create_notification", cur, NotificationType(cur))
    /\ matches' = << >>
    /\ \E ok \in Results :
          /\ Inject(ok)
          /\ IF ok
             THEN /\ notifications' = Append(notifications,
                         [type |-> NotificationType(cur), msg |-> cur,
                          entityId |-> entity])
                  /\ Succeeded("notify")
             ELSE /\ Failed("notify")
                  /\ UNCHANGED notifications
    /\ UNCHANGED << mail, labels, ledger, drafts, gmailCalls, running, cycle,
                    agents, result, has_work, errorReport, slept, listing,
                    idx, cur, entity, entities, ingestCalls, runs >>
    /\ attempts' = << >>
    /\ UNCHANGED service

\* hellio_api.py mark_email_processed: the record is posted to the backend
mark_email_processed ==
    /\ pc = "commit"
    /\ \E ok \in Results :
          /\ Inject(ok)
          /\ Log("mark_email_processed", cur, IF ok THEN "ok" ELSE "error")
          /\ IF ok
             THEN /\ ledger' = Append(ledger, ProcessedRecord(cur, entity))
                  /\ Succeeded("commit")
             ELSE /\ Failed("commit")
                  /\ UNCHANGED ledger
    /\ UNCHANGED << mail, labels, drafts, notifications, gmailCalls, running,
                    cycle, agents, result, has_work, errorReport, slept,
                    listing, idx, cur, entity, matches, entities,
                    ingestCalls, runs >>
    /\ attempts' = << >>
    /\ UNCHANGED service

\* gmail_api.py mark_email_as_read
mark_email_as_read ==
    /\ pc = "mark_read"
    /\ gmailCalls' = gmailCalls \cup {"messages.modify"}
    /\ Log("mark_email_as_read", cur, "")
    /\ \E ok \in Results :
          /\ Inject(ok)
          /\ OneRequest(ok)
          /\ IF ok
             THEN /\ labels' = [labels EXCEPT ![cur] = RemoveUnread(@)]
                  /\ Succeeded("mark_read")
             ELSE /\ Failed("mark_read")
                  /\ UNCHANGED labels
    /\ UNCHANGED << mail, ledger, drafts, notifications, running, cycle,
                    agents, result, has_work, errorReport, slept, listing,
                    idx, cur, entity, matches, entities, ingestCalls, runs >>

\* hr_agent.py rule 7 and step 5 of both workflows: after a failed step the
\* agent calls create_notification(type="error") and stops
create_error_notification ==
    /\ pc = "abort"
    /\ Log("create_notification", cur, "error")
    /\ \E ok \in Results :
          /\ Inject(ok)
          /\ notifications' =
                IF ok
                THEN Append(notifications,
                        [type |-> "error", msg |-> cur, entityId |-> 0])
                ELSE notifications
          /\ errorReport' = IF ok THEN "created" ELSE "failed"
    /\ labels' = [labels EXCEPT ![cur] = LeaveUnread(@)]
    /\ matches' = << >>
    /\ pc' = "return"
    /\ UNCHANGED << mail, ledger, drafts, gmailCalls, running, cycle,
                    agents, result, has_work, slept, listing, idx, cur,
                    entity, failedStep, faults, entities,
                    ingestCalls, runs >>
    /\ attempts' = << >>
    /\ UNCHANGED service

\* run.py: agent(prompt) returns the agent's report of the handled email
agent_returns ==
    /\ pc = "return"
    /\ result' = IF failedStep = "" THEN "processed" ELSE "failed to process"
    /\ has_work' = HasWork(result')
    /\ runs' = [runs EXCEPT ![cur] =
                    Append(@, IF failedStep = "" THEN "done" ELSE Outcome("aborted"))]
    /\ pc' = "end"
    /\ UNCHANGED << mail, labels, ledger, drafts, notifications, gmailCalls,
                    running, cycle, agents, errorReport, slept, listing, idx,
                    cur, entity, matches, calls, failedStep, faults,
                    injected, entities, ingestCalls >>
    /\ attempts' = << >>
    /\ UNCHANGED service

Next ==
    \/ signal_handler
    \/ WhileRunning
    \/ StartCycle
    \/ Exit
    \/ EndCycle
    \/ Sleep
    \/ agent_raises
    \/ search_emails
    \/ NoNewEmails
    \/ check_email_processed
    \/ read_email
    \/ download_and_ingest_cv
    \/ ingest_job
    \/ suggest_positions_for_candidate
    \/ suggest_candidates_for_position
    \/ create_draft
    \/ create_notification
    \/ mark_email_processed
    \/ mark_email_as_read
    \/ create_error_notification
    \/ agent_returns

Spec == Init /\ [][Next]_vars

\* The steps main and the agent take by themselves: every step but the
\* arrival of a signal
Step ==
    \/ WhileRunning
    \/ StartCycle
    \/ Exit
    \/ EndCycle
    \/ Sleep
    \/ agent_raises
    \/ search_emails
    \/ NoNewEmails
    \/ check_email_processed
    \/ read_email
    \/ download_and_ingest_cv
    \/ ingest_job
    \/ suggest_positions_for_candidate
    \/ suggest_candidates_for_position
    \/ create_draft
    \/ create_notification
    \/ mark_email_processed
    \/ mark_email_as_read
    \/ create_error_notification
    \/ agent_returns

\* main is one thread that runs on: every call it makes returns or raises,
\* and the statement after it is executed.  The agent on a mailbox with one
\* unread message.
FairSpec == OneInit /\ [][Next]_vars /\ WF_vars(Step)

\* The polling loop on a mailbox without unread messages
IdleNext ==
    \/ signal_handler
    \/ WhileRunningIdle
    \/ StartCycle
    \/ Exit
    \/ EndCycle
    \/ Sleep
    \/ agent_raises
    \/ search_emails
    \/ NoNewEmails

IdleSpec == IdleInit /\ [][IdleNext]_vars

\* =================================================================== claims

Seen(m) == mail[m] # Unseen

StepsBeforeCommit == {"read", "ingest", "match", "draft", "notify", "commit"}

IngestTools == {"download_and_ingest_cv", "ingest_cv", "ingest_job"}

SideEffectTools ==
    IngestTools \cup {"create_draft", "create_notification",
                      "mark_email_processed", "mark_email_as_read"}

Called(tool, m) ==
    \E i \in 1..Len(calls) : calls[i].tool = tool /\ calls[i].msg = m

EntitiesOf(m) == { i \in 1..Len(entities) : entities[i].msg = m }

\* The runs of m that stopped before its record was written
AbortedRuns(m) ==
    { i \in 1..Len(runs[m]) : runs[m][i] \in {"aborted", "raised"} }

\* A run on m wrote the record, and every later cycle skipped m
CommittedThenSkipped(m) ==
    /\ Len(runs[m]) >= 2
    /\ runs[m][1] \in {"done", "committed"}
    /\ runs[m][2] = "skipped"

\* ------------------------------------------------------------------- C1
\* The side effects that precede the commit on the path of m
PrecedingSideEffectsDone(m) ==
    /\ NeedsIngestion(m) =>
          /\ EntitiesOf(m) # {}
          /\ \A r \in RecordsOf(m) : ledger[r].entityId \in EntitiesOf(m)
    /\ Classify(m) # "other" => DraftsOf(m) # {} /\ NotificationsOf(m) # {}

RunLeftRetryable ==
    /\ ~HasRecord(cur)
    /\ Unread(cur)
    /\ ~Called("mark_email_processed", cur)
    /\ ~Called("mark_email_as_read", cur)

\* C2 as stated: a run in which ingestion, matching, draft creation or
\* notification fails ends without commit and without mark-as-read: no
\* record, message still unread.
C2_AnyFailedStepAborts ==
    (pc = "end" /\ cur # 0
        /\ faults \cap {"ingest", "match", "draft", "notify"} # {})
    => RunLeftRetryable

\* C2, what does hold: a run in which the failure of ingestion, matching,
\* draft creation or notification is reported to the workflow ends without
\* commit and without mark-as-read.
C2_ReportedFailureAborts ==
    (pc = "end" /\ cur # 0
        /\ failedStep \in {"ingest", "match", "draft", "notify"})
    => RunLeftRetryable

C2_AbortedWitness ==
    /\ pc = "end"
    /\ cur # 0
    /\ failedStep = "draft"
    /\ result = "failed to process"

\* The run C2 is wrong about: the matching request of a job posting is
\* answered with a status other than 200, suggest_candidates_for_position
\* returns the empty list, and the run goes on to commit and mark-as-read.
C2_Witness ==
    /\ pc = "end"
    /\ cur # 0
    /\ Classify(cur) = "position"
    /\ "match" \in faults
    /\ failedStep = ""
    /\ HasRecord(cur)
    /\ ~Unread(cur)

C5_CheckBeforeSideEffects ==
    /\ \A i \in 1..Len(calls) :
          calls[i].tool \in SideEffectTools =>
              /\ calls[i].msg = cur
              /\ \E j \in 1..(i - 1) :
                    /\ calls[j].tool = "check_email_processed"
                    /\ calls[j].msg = cur
    /\ (cur # 0 /\ pc \in StepsBeforeCommit) => ~HasRecord(cur)

C5_Witness ==
    \E m \in Msgs :
        /\ HasRecord(m)
        /\ Called("check_email_processed", m)
        /\ cur # m
        /\ ~\E i \in 1..Len(calls) :
              calls[i].tool \in SideEffectTools /\ calls[i].msg = m

\* ------------------------------------------------------------------- C6
\* C6 as stated: over any sequence of runs on a message, aborted runs and
\* their retries included, at most one draft, one non-error notification
\* and one record are created for it.
C6_AtMostOneOfEach ==
    \A m \in Msgs :
        /\ Cardinality(DraftsOf(m)) <= 1
        /\ Cardinality(NotificationsOf(m)) <= 1
        /\ Cardinality(RecordsOf(m)) <= 1

\* C6 amended: at most one record is ever created for a message; a run
\* creates at most one draft and one non-error notification, and only a run
\* that aborted leaves duplicates behind: a message has at most one draft
\* and one non-error notification more than it has aborted runs.
C6_AtMostOnePerRun ==
    \A m \in Msgs :
        /\ Cardinality(RecordsOf(m)) <= 1
        /\ Cardinality(DraftsOf(m)) <= 1 + Cardinality(AbortedRuns(m))
        /\ Cardinality(NotificationsOf(m)) <= 1 + Cardinality(AbortedRuns(m))

C6_Witness ==
    \E m \in Msgs :
        /\ Cardinality(DraftsOf(m)) = 2
        /\ Cardinality(AbortedRuns(m)) = 1

\* ------------------------------------------------------------------- C7
NonSendingMethods ==
    { "messages.list", "messages.get", "messages.attachments.get",
      "drafts.create", "messages.modify" }

\* C7: no email is ever sent: the Gmail methods invoked are the reading
\* ones, drafts.create and messages.modify, every tool call is a tool of
\* the agent's list, and the only label a message ever loses is UNREAD.
C7_NeverSends ==
    /\ gmailCalls \subseteq NonSendingMethods
    /\ \A i \in 1..Len(calls) : calls[i].tool \in ToolList
    /\ \A m \in Msgs : labels[m] \in { {"INBOX", "UNREAD"}, {"INBOX"} }

C7_Witness ==
    /\ drafts # << >>
    /\ "drafts.create" \in gmailCalls
    /\ \E m \in Msgs : ~Unread(m)

\* ------------------------------------------------------------------- C8
PositionTraces(m) ==
    \/ Called("ingest_job", m)
    \/ Called("suggest_candidates_for_position", m)
    \/ \E i \in EntitiesOf(m) : entities[i].type = "position"
    \/ \E i \in RecordsOf(m) : ledger[i].emailType = "position"
    \/ \E i \in NotificationsOf(m) : notifications[i].type = "new_position"

CandidateTraces(m) ==
    \/ Called("download_and_ingest_cv", m)
    \/ Called("suggest_positions_for_candidate", m)
    \/ \E i \in EntitiesOf(m) : entities[i].type = "candidate"
    \/ \E i \in RecordsOf(m) : ledger[i].emailType = "candidate"
    \/ \E i \in NotificationsOf(m) : notifications[i].type = "new_candidate"

\* C8: a message to the candidates address never goes through the position
\* workflow, a message to the positions address never goes through the
\* candidate workflow, and every message has one of the three categories.
C8_ClassificationExclusive ==
    \A m \in Msgs :
        Seen(m) =>
            /\ mail[m].to = GMAIL_CANDIDATES_ADDRESS => ~PositionTraces(m)
            /\ mail[m].to = GMAIL_POSITIONS_ADDRESS => ~CandidateTraces(m)
            /\ Classify(m) \in {"candidate", "position", "other"}
            /\ \A r \in RecordsOf(m) : ledger[r].emailType = Classify(m)

C8_Witness ==
    \E m1, m2 \in Msgs :
        /\ mail[m1].to = GMAIL_CANDIDATES_ADDRESS /\ CandidateTraces(m1)
        /\ mail[m2].to = GMAIL_POSITIONS_ADDRESS /\ PositionTraces(m2)

\* ------------------------------------------------------------------- C9
\* C9: for a message classified as other the workflow writes the record
\* {other, skipped} and then marks the message read; it never calls
\* ingestion or matching and never creates a draft.
C9_OtherIsSkipped ==
    \A m \in Msgs :
        (Seen(m) /\ Classify(m) = "other") =>
            /\ ingestCalls[m] = 0
            /\ EntitiesOf(m) = {}
            /\ DraftsOf(m) = {}
            /\ ~\E i \in 1..Len(calls) :
                  /\ calls[i].msg = m
                  /\ calls[i].tool \in IngestTools \cup
                        {"suggest_positions_for_candidate",
                         "suggest_candidates_for_position", "create_draft"}
            /\ \A r \in RecordsOf(m) :
                  ledger[r].emailType = "other" /\ ledger[r].actionTaken = "skipped"
            /\ ~Unread(m) => HasRecord(m)
            /\ (\E i \in 1..Len(runs[m]) : runs[m][i] = "done") =>
                  HasRecord(m) /\ ~Unread(m)

C9_Witness ==
    \E m \in Msgs :
        Seen(m) /\ Classify(m) = "other" /\ HasRecord(m) /\ ~Unread(m)

\* ------------------------------------------------------------------ C10
Best(ms) == CHOOSE x \in Range(ms) : \A y \in Range(ms) : y <= x

AboutToDraftReply ==
    pc = "draft" /\ Classify(cur) = "candidate" /\ mail[cur].attachment

C11_DraftThreading ==
    \A d \in 1..Len(drafts) :
        /\ drafts[d].threadId # 0
        /\ drafts[d].threadId = drafts[d].msg
        /\ drafts[d].threadId \in Msgs
        /\ Seen(drafts[d].threadId)
        /\ Classify(drafts[d].threadId) # "other"

C11_Witness ==
    \E d1, d2 \in 1..Len(drafts) :
        /\ drafts[d1].threadId = 1
        /\ drafts[d2].threadId = 2
        /\ NeedsIngestion(1)
        /\ ~NeedsIngestion(2)

\* ------------------------------------------------------------------ C12
\* The cycle handled a message and no step of the run failed
RunDone == pc = "end" /\ cur # 0 /\ failedStep = "" /\ result = "processed"

NoCV(m) == Seen(m) /\ Classify(m) = "candidate" /\ ~mail[m].attachment

CalledWith(tool, m, arg) ==
    \E i \in 1..Len(calls) :
        calls[i].tool = tool /\ calls[i].msg = m /\ calls[i].arg = arg

\* C12 as stated: a run on a candidate message without attachment creates
\* the CV-request draft, commits a record with action draft_created, marks
\* the message read and calls no ingestion; the ledger holds a record for
\* the message afterwards.
C12_NoCVCommitsDraftCreated ==
    (RunDone /\ NoCV(cur)) =>
        /\ CalledWith("create_draft", cur, "B1")
        /\ DraftsOf(cur) # {}
        /\ ingestCalls[cur] = 0
        /\ \E r \in RecordsOf(cur) : ledger[r].actionTaken = "draft_created"
        /\ ~Unread(cur)

\* The run C12 is wrong about: the no-CV step of the CV workflow names
\* create_draft, create_notification and mark_email_as_read only, so the
\* message ends read and without a record.
C12_Witness ==
    /\ RunDone
    /\ NoCV(cur)
    /\ DraftsOf(cur) # {}
    /\ ~Unread(cur)
    /\ ~HasRecord(cur)

\* C12, what does hold: the run creates the CV-request draft and the
\* missing_info notification, calls no ingestion and marks the message
\* read; a record, when one is written, is {candidate, draft_created}.
C12_NoCVRequestsCV ==
    (RunDone /\ NoCV(cur)) =>
        /\ CalledWith("create_draft", cur, "B1")
        /\ DraftsOf(cur) # {}
        /\ NotificationsOf(cur) # {}
        /\ ingestCalls[cur] = 0
        /\ EntitiesOf(cur) = {}
        /\ ~Unread(cur)
        /\ \A r \in RecordsOf(cur) :
              /\ ledger[r].emailType = "candidate"
              /\ ledger[r].actionTaken = "draft_created"

C12_CommittedWitness ==
    RunDone /\ NoCV(cur) /\ HasRecord(cur) /\ ~Unread(cur)

\* ------------------------------------------------------------------ C13
Insufficient(m) == Seen(m) /\ Classify(m) = "position" /\ ~mail[m].details

\* C13 as stated: a run on a position message without title or
\* requirements creates the information-request draft, commits a record
\* with action draft_created, marks the message read and calls no
\* ingestion, so that no position is created.
C13_InsufficientCommitsDraftCreated ==
    (RunDone /\ Insufficient(cur)) =>
        /\ CalledWith("create_draft", cur, "A1")
        /\ DraftsOf(cur) # {}
        /\ ingestCalls[cur] = 0
        /\ EntitiesOf(cur) = {}
        /\ \E r \in RecordsOf(cur) : ledger[r].actionTaken = "draft_created"
        /\ ~Unread(cur)

\* The run C13 is wrong about: Workflow 1 step 3 names the draft and the
\* notification only, rule 3 ties mark_email_processed to an ingestion, and
\* the message ends read and without a record.
C13_Witness ==
    /\ RunDone
    /\ Insufficient(cur)
    /\ DraftsOf(cur) # {}
    /\ ~Unread(cur)
    /\ ~HasRecord(cur)

\* C13, what does hold: the run creates the information-request draft and
\* the missing_info notification, calls no ingestion, creates no position
\* and marks the message read; a record, when one is written, is
\* {position, draft_created}.
C13_InsufficientRequestsDetails ==
    (RunDone /\ Insufficient(cur)) =>
        /\ CalledWith("create_draft", cur, "A1")
        /\ DraftsOf(cur) # {}
        /\ NotificationsOf(cur) # {}
        /\ ingestCalls[cur] = 0
        /\ ~Called("ingest_job", cur)
        /\ EntitiesOf(cur) = {}
        /\ ~Unread(cur)
        /\ \A r \in RecordsOf(cur) :
              /\ ledger[r].emailType = "position"
              /\ ledger[r].actionTaken = "draft_created"

C13_CommittedWitness ==
    RunDone /\ Insufficient(cur) /\ HasRecord(cur) /\ ~Unread(cur)

\* ------------------------------------------------------------------ C14
CallsOf(tool, m) ==
    { i \in 1..Len(calls) : calls[i].tool = tool /\ calls[i].msg = m }

HasCV(m) == Seen(m) /\ Classify(m) = "candidate" /\ mail[m].attachment

MarkReadOnlyAfterCommit ==
    \A i \in 1..Len(calls) :
        calls[i].tool = "mark_email_as_read" =>
            \E j \in 1..(i - 1) :
                /\ calls[j].tool = "mark_email_processed"
                /\ calls[j].msg = calls[i].msg
                /\ calls[j].arg = "ok"

\* Once a run has written the record of m, m is never dispatched again
CommittedNeverDispatchedAgain ==
    \A m \in Msgs :
        \A i \in 1..Len(runs[m]) :
            runs[m][i] \in {"done", "committed"} =>
                /\ HasRecord(m) \/ ~NeedsIngestion(m)
                /\ \A j \in (i + 1)..Len(runs[m]) : runs[m][j] = "skipped"

\* C15 as stated: on every success path mark-as-read is the last action and
\* comes only after the commit; when mark-as-read fails after the commit
\* the record stays and the message, still unread and still listed, is
\* never dispatched to a workflow again.
C15_MarkReadAfterCommit ==
    /\ MarkReadOnlyAfterCommit
    /\ RunDone => calls[Len(calls)].tool = "mark_email_as_read"
    /\ CommittedNeverDispatchedAgain

\* The run C15 is wrong about: on the no-CV path of the CV workflow the
\* message is marked read and no commit was made before.
C15_Witness ==
    /\ cur # 0
    /\ ~Unread(cur)
    /\ Called("mark_email_as_read", cur)
    /\ ~Called("mark_email_processed", cur)

\* C15, what does hold: mark-as-read is the last call of every run without
\* failure; a commit made in the run comes before it, and it always does on
\* the ingesting paths and for other messages; a message whose record was
\* written and whose mark-as-read failed keeps the record, stays unread and
\* is skipped in every later cycle.
C15_MarkReadLast ==
    /\ RunDone => calls[Len(calls)].tool = "mark_email_as_read"
    /\ \A i \in 1..Len(calls) :
          calls[i].tool = "mark_email_processed" =>
              ~\E j \in 1..(i - 1) : calls[j].tool = "mark_email_as_read"
    /\ (cur # 0 /\ Seen(cur) /\ (NeedsIngestion(cur) \/ Classify(cur) = "other"))
          => MarkReadOnlyAfterCommit
    /\ \A m \in Msgs :
          \A i \in 1..Len(runs[m]) :
              runs[m][i] = "committed" =>
                  /\ HasRecord(m)
                  /\ \A j \in (i + 1)..Len(runs[m]) : runs[m][j] = "skipped"

C15_SkippedWitness ==
    \E m \in Msgs :
        /\ runs[m] = << "committed", "skipped" >>
        /\ HasRecord(m)
        /\ Unread(m)
        /\ NeedsIngestion(m)

\* ------------------------------------------------------------------ C16
\* The tools called on message m in this cycle, in the order of the calls
RECURSIVE ToolsOn(_, _)
ToolsOn(cs, m) ==
    IF cs = << >> THEN << >>
    ELSE IF Head(cs).msg = m THEN << Head(cs).tool >> \o ToolsOn(Tail(cs), m)
    ELSE ToolsOn(Tail(cs), m)

Sufficient(m) == Seen(m) /\ Classify(m) = "position" /\ mail[m].details

AfterIngestion(i) ==
    \/ calls[i].tool \in {"suggest_positions_for_candidate",
                          "suggest_candidates_for_position", "create_draft",
                          "mark_email_processed", "mark_email_as_read"}
    \/ calls[i].tool = "create_notification" /\ calls[i].arg # "error"

\* C17: in a run on a message that needs ingestion (CV attached, job
\* details present) no matching call, no draft, no new_candidate or
\* new_position notification, no commit and no mark-as-read is made unless
\* the ingestion call of this run came before and returned the id of an
\* entity; a run whose ingestion returned anything else has failed at the
\* ingestion step and makes none of these calls.
C17_IngestionGates ==
    (cur # 0 /\ Seen(cur) /\ NeedsIngestion(cur)) =>
        /\ \A i \in 1..Len(calls) :
              (calls[i].msg = cur /\ AfterIngestion(i)) =>
                  /\ entity # 0
                  /\ entity \in EntitiesOf(cur)
                  /\ \E j \in 1..(i - 1) :
                        calls[j].tool \in IngestTools /\ calls[j].msg = cur
        /\ pc \in {"match", "draft", "notify", "commit", "mark_read"} =>
              entity \in EntitiesOf(cur)
        /\ (entity = 0 /\ Called("download_and_ingest_cv", cur)) =>
              failedStep = "ingest" \/ pc = "end"
        /\ (entity = 0 /\ Called("ingest_job", cur)) =>
              failedStep = "ingest" \/ pc = "end"

C17_Witness ==
    /\ pc = "end"
    /\ cur # 0
    /\ mail[cur].usable
    /\ failedStep = "ingest"
    /\ ToolsOn(calls, cur) =
          << "check_email_processed", "read_email", "ingest_job",
             "create_notification" >>

\* ------------------------------------------------------------------ C18
\* The workflow tools (everything but the search and the ledger check) are
\* called on the dispatched message only
OnlyCurIsProcessed ==
    \A i \in 1..Len(calls) :
        calls[i].tool \notin {"search_emails", "check_email_processed"} =>
            cur # 0 /\ calls[i].msg = cur

\* C18 as stated: a cycle dispatches at most one message, and it is the
\* first message of the unread listing that has no record; a message that
\* has a record is never dispatched.
C18_FirstWithoutRecordIsDispatched ==
    /\ OnlyCurIsProcessed
    /\ cur # 0 =>
          /\ idx <= Len(listing)
          /\ cur = listing[idx]
          /\ \A j \in 1..(idx - 1) : HasRecord(listing[j])
          /\ pc \in StepsBeforeCommit => ~HasRecord(cur)

\* The cycle C18 is wrong about: the ledger lookup for the first listed
\* message is answered with a server error, check_email_processed reports
\* it as found, and the second message is dispatched in its place.
C18_Witness ==
    /\ listing = << 1, 2 >>
    /\ cur = 2
    /\ ~HasRecord(1)
    /\ Unread(1)
    /\ pc = "read"

\* C18, what does hold: a cycle dispatches at most one message; it is a
\* message of the unread listing, it has no record when it is dispatched,
\* and every message listed before it was checked and reported as found.
C18_AtMostOneDispatched ==
    /\ OnlyCurIsProcessed
    /\ cur # 0 =>
          /\ idx <= Len(listing)
          /\ cur = listing[idx]
          /\ \A j \in 1..(idx - 1) : Called("check_email_processed", listing[j])
          /\ pc \in StepsBeforeCommit => ~HasRecord(cur)

C18_DispatchWitness ==
    /\ listing = << 1, 2 >>
    /\ cur = 2
    /\ HasRecord(1)
    /\ pc = "read"

\* ------------------------------------------------------------------ C19
\* C19 as stated: no exception raised inside a polling cycle (agent reset,
\* search, workflow run, error reporting) ends the polling loop: as long as
\* no shutdown was requested the loop is alive.
C19_LoopSurvivesExceptions ==
    running => pc \notin {"crashed", "stopped"}

\* The cycle C19 is wrong about: create_agent() raises in the periodic
\* reset, which is outside the try block, and main ends.
C19_Witness ==
    /\ pc = "crashed"
    /\ running
    /\ cycle = RESET_INTERVAL

\* C19, what does hold: an exception of the agent's call, and a failure to
\* report it, leave the loop alive; only the reset can end it.
C19_AgentExceptionsSwallowed ==
    /\ result = "exception" => pc \in {"end", "loop", "stopped"}
    /\ pc = "stopped" => ~running
    /\ pc = "crashed" => ResetDue(cycle)

C19_SwallowedWitness ==
    /\ result = "exception"
    /\ errorReport = "created"
    /\ pc = "loop"
    /\ running

InFlight ==
    {"search", "check", "read", "ingest", "match", "draft", "notify",
     "commit", "mark_read", "abort", "return"}

C21_SleepCutShort ==
    /\ pc = "stopped"
    /\ slept > 0
    /\ slept < POLL_INTERVAL

\* The request arrived between the loop test and the start of the cycle
C21_LateCycle ==
    /\ ~running
    /\ pc = "begin"

\* ------------------------------------------------------------------ C22
\* A message whose ingestion can never succeed: the backend cannot extract
\* a candidate or a position from it
NeverIngestible(m) == Seen(m) /\ NeedsIngestion(m) /\ ~mail[m].usable

Settled(m) == HasRecord(m) /\ ~Unread(m)

C22_ReadWithoutRecordIsFinal ==
    [][\A m \in Msgs :
          (~Unread(m) /\ ~HasRecord(m) /\ cur # m) =>
              (~Unread(m)' /\ ~HasRecord(m)' /\ cur' # m)]_vars

\* C22, what does hold: unless the shutdown is requested, a message that can
\* be ingested is dispatched again after every failed run until it has a
\* record or is marked read.
C22_RetriedUntilRecordOrRead ==
    <>(~running \/ NeverIngestible(1) \/ HasRecord(1) \/ ~Unread(1))

\* A message that was committed by the run that followed a failed run
C22_RetriedWitness ==
    /\ runs[1] = << "aborted", "done" >>
    /\ Settled(1)
    /\ NeedsIngestion(1)

\* ------------------------------------------------------------------ C23
\* A call that belongs to a workflow run: every call but the search and
\* the ledger checks
RunCall(c) == c.tool \notin {"search_emails", "check_email_processed"}

\* C23: one run at a time.  Outside the agent's call no run is in flight;
\* inside it the calls of the run are all on the one dispatched message, the
\* ledger check of that message is the last ledger check of the cycle, so no
\* check and no commit of any message lies between the check and the commit
\* of the dispatched one, and a cycle commits at most once.
C23_OneRunAtATime ==
    /\ pc \in {"loop", "begin", "sleep", "stopped", "crashed"} =>
          cur = 0 /\ calls = << >>
    /\ \A i \in 1..Len(calls) :
          RunCall(calls[i]) => cur # 0 /\ calls[i].msg = cur
    /\ \A j \in 1..Len(calls) :
          calls[j].tool = "check_email_processed" =>
              \A i \in 1..(j - 1) :
                  ~RunCall(calls[i]) /\ calls[i].msg # calls[j].msg
    /\ cur # 0 =>
          \E i \in 1..Len(calls) :
              /\ calls[i].tool = "check_email_processed"
              /\ calls[i].msg = cur
              /\ \A j \in (i + 1)..Len(calls) : RunCall(calls[j])
    /\ \A i \in 1..Len(calls) : \A j \in 1..(i - 1) :
          calls[i].tool = "mark_email_processed" =>
              calls[j].tool # "mark_email_processed"
    /\ \A r \in 1..Len(ledger) : \A q \in 1..(r - 1) :
          ledger[q].emailId # ledger[r].emailId

\* A run about to commit the second listed message, after the ledger check
\* of the first one, which is still unread
C23_Witness ==
    /\ pc = "commit"
    /\ Len(listing) >= 2
    /\ cur = listing[2]
    /\ Called("check_email_processed", listing[1])
    /\ Called("create_notification", cur)

\* ------------------------------------------------------------------ C24
\* C24: at the end of a cycle has_work is true exactly when a message was
\* dispatched and the agent's call did not raise; the next cycle then starts
\* with no second slept, and otherwise after POLL_INTERVAL seconds of sleep.
C24_SleepUnlessDispatched ==
    /\ pc = "end" => (has_work <=> (cur # 0 /\ result # "exception"))
    /\ pc = "sleep" => ~has_work /\ slept \in 0..POLL_INTERVAL
    /\ (pc = "begin" /\ cycle > 0) =>
          slept = IF has_work THEN 0 ELSE POLL_INTERVAL

\* The next cycle is about to start right after a cycle that handled a
\* message
C24_Witness ==
    /\ pc = "begin"
    /\ cycle > 0
    /\ has_work
    /\ slept = 0
    /\ \E m \in Msgs : runs[m] = << "done" >>

\* The next cycle is about to start after the sleep that followed a cycle
\* in which a message was dispatched and the agent's call raised
C24_SleptAfterException ==
    /\ pc = "begin"
    /\ result = "exception"
    /\ slept = POLL_INTERVAL
    /\ \E m \in Msgs : runs[m] = << "raised" >>

\* ------------------------------------------------------------------ C25
MailboxTools ==
    {"search_emails", "read_email", "create_draft", "mark_email_as_read"}

LastTool == IF calls = << >> THEN "" ELSE calls[Len(calls)].tool

LastResult == attempts[Len(attempts)].result

\* C25: a mailbox operation sends one request, but for create_draft, which
\* sends a second one only when the first failed with an SSL error, on a
\* handle newly built for it that is the cached handle from then on; any
\* other failure of the first request and any failure of the second one
\* fail the step of the workflow, with no further request.
C25_OneBoundedRetry ==
    attempts # << >> =>
        /\ LastTool \in MailboxTools
        /\ Len(attempts) <= 2
        /\ LastTool # "create_draft" => Len(attempts) = 1
        /\ attempts[1].handle = attempts[1].cached
        /\ attempts[1].handle = 0 \/ LastTool = "search_emails"
        /\ Len(attempts) = 2 =>
              /\ attempts[1].result = "SSL"
              /\ attempts[2].result = "no_service" =>
                    attempts[2].cached = attempts[1].handle
              /\ attempts[2].result # "no_service" =>
                    /\ attempts[2].handle = attempts[1].handle + 1
                    /\ attempts[2].cached = attempts[2].handle
        /\ attempts[1].result = "SSL" => Len(attempts) = 2
        /\ attempts[1].result = "error" => Len(attempts) = 1
        /\ LastResult = "ok" => failedStep = "" /\ pc # "abort"
        /\ LastResult # "ok" =>
              /\ pc = "abort"
              /\ failedStep = (CASE LastTool = "create_draft" -> "draft"
                                 [] LastTool = "read_email" -> "read"
                                 [] OTHER -> "mark_read")

\* A draft stored by the second request, after an SSL error of the first
C25_Witness ==
    /\ Len(attempts) = 2
    /\ attempts[1].result = "SSL"
    /\ attempts[2].result = "ok"
    /\ pc = "notify"
    /\ DraftsOf(cur) # {}

\* A draft given up after the second request failed as well
C25_SecondFailureWitness ==
    /\ Len(attempts) = 2
    /\ attempts[2].result = "error"
    /\ pc = "abort"
    /\ failedStep = "draft"

\* ------------------------------------------------------------------ C26
\* The first cycle the current agent instance serves
ServesFrom == IF agents = 1 THEN 1 ELSE RESET_INTERVAL * (agents - 1)

\* C26: create_agent() has been called once before the loop and once more
\* in every cycle whose number is a multiple of RESET_INTERVAL, before the
\* agent is called in that cycle, and in no other cycle; an instance serves
\* RESET_INTERVAL cycles at most.
C26_ResetWatermark ==
    pc # "crashed" =>
        /\ agents = 1 + (cycle \div RESET_INTERVAL)
        /\ cycle >= ServesFrom - 1
        /\ cycle - ServesFrom + 1 <= RESET_INTERVAL

\* The agent of the second reset is about to be called in the cycle of
\* that reset
C26_Witness ==
    /\ pc = "search"
    /\ cycle = 2 * RESET_INTERVAL
    /\ agents = 3

\* The cycle after a reset runs on the instance of the reset
C26_NoResetWitness ==
    /\ pc = "search"
    /\ cycle = RESET_INTERVAL + 1
    /\ agents = 2

\* ------------------------------------------------------------------ C27
\* The ledger lookups of this cycle
Lookups == { i \in 1..Len(calls) : calls[i].tool = "check_email_processed" }

\* C27: a lookup reports "not found" exactly when the backend answered 404;
\* the message of a lookup answered 404 is the one the cycle dispatches, and
\* the message of a lookup answered with any other status, 401 and 500
\* included, is passed over in this cycle, record or no record.
C27_FoundUnless404 ==
    \A i \in Lookups :
        /\ calls[i].arg \in {"200", "404", "401", "500"}
        /\ calls[i].arg = "404" <=> cur = calls[i].msg
        /\ calls[i].arg = "404" =>
              \A j \in 1..Len(calls) : j > i => j \notin Lookups
        /\ calls[i].arg # "404" =>
              /\ runs[calls[i].msg] # << >>
              /\ \A j \in 1..Len(calls) :
                    calls[j].msg = calls[i].msg => j = i
        /\ calls[i].arg = "200" => HasRecord(calls[i].msg)

\* The cycle ends without work: the only unread message has no record, and
\* its lookup was answered 401
C27_Witness ==
    /\ pc = "end"
    /\ result = "no new emails to process"
    /\ \E i \in Lookups :
          /\ calls[i].arg = "401"
          /\ ~HasRecord(calls[i].msg)
          /\ Unread(calls[i].msg)
          /\ runs[calls[i].msg] = << "skipped" >>

\* ------------------------------------------------------------------ C28
\* The matching calls of this cycle's run on a job posting
Suggestions ==
    { i \in 1..Len(calls) : calls[i].tool = "suggest_candidates_for_position" }

\* The matching call was the last thing the agent did, and the agent itself
\* has not raised since
JustSuggested(i) == i = Len(calls) /\ result # "exception"

MatchingFailed ==
    \E i \in Suggestions : calls[i].arg \in {"401", "500"}

\* C28: on the position path an answer of the matching service that is not
\* 200 gives the workflow the empty list: the run is not aborted, its next
\* step is the draft as after an answer without candidates, and a run that
\* finishes after it has written the confirmation draft, the new_position
\* notification and the record, and has marked the message read.
C28_FailedMatchingIsNoMatch ==
    /\ \A i \in Suggestions :
          /\ calls[i].arg \in {"200", "401", "500", "raised"}
          /\ (JustSuggested(i) /\ calls[i].arg \in {"401", "500"}) =>
                /\ pc = "draft"
                /\ matches = << >>
                /\ failedStep = ""
          /\ (JustSuggested(i) /\ calls[i].arg = "200") => pc = "draft"
          /\ (JustSuggested(i) /\ calls[i].arg = "raised") =>
                pc = "abort" /\ failedStep = "match"
    /\ (RunDone /\ MatchingFailed) =>
          /\ Sufficient(cur)
          /\ ToolsOn(calls, cur) =
                << "check_email_processed", "read_email", "ingest_job",
                   "suggest_candidates_for_position", "create_draft",
                   "create_notification", "mark_email_processed",
                   "mark_email_as_read" >>
          /\ CalledWith("create_draft", cur, "A3")
          /\ \E n \in NotificationsOf(cur) :
                notifications[n].type = "new_position"
          /\ \E r \in RecordsOf(cur) : ledger[r].actionTaken = "ingested"
          /\ ~Unread(cur)

\* A run on a job posting that is done although its matching request was
\* answered with a server error
C28_Witness ==
    /\ RunDone
    /\ CalledWith("suggest_candidates_for_position", cur, "500")
    /\ injected = 1
    /\ HasRecord(cur)
    /\ ~Unread(cur)

\* ------------------------------------------------------------------ C29
\* Ingestion of m has been tried, and no attempt has created an entity
FailsEveryTime(m) == ingestCalls[m] > 0 /\ EntitiesOf(m) = {}

\* The runs on m that ended in the abort of the workflow
Attempts(m) == { i \in 1..Len(runs[m]) : runs[m][i] = "aborted" }

\* The runs in which m was dispatched, whatever their end
Dispatches(m) == { i \in 1..Len(runs[m]) : runs[m][i] # "skipped" }

\* The lookup of m in this cycle failed, so that m was passed over
LookupFailed(m) ==
    \E i \in 1..Len(calls) :
        /\ calls[i].tool = "check_email_processed"
        /\ calls[i].msg = m
        /\ calls[i].arg \in {"401", "500"}

C29_LaterDispatched ==
    /\ FailsEveryTime(1)
    /\ runs[1] = << "aborted", "skipped" >>
    /\ cur = 2
    /\ LookupFailed(1)

====
